---- MODULE Spec2Model ----
(***************************************************************************)
(* Model of src/helpers.js: the helper that merges the operating-system    *)
(* specific settings file of a workspace into .vscode/settings.json.       *)
(*                                                                         *)
(* Three specifications share the definitions below:                       *)
(*   SpecMerge    deepMerge applied to pairs of JSON values;               *)
(*   SpecResolve  the file readers applied to a workspace's files;         *)
(*   Spec         runs of the exported command vsCodeUpdateSettingsFile.   *)
(*                                                                         *)
(* Property names stand for ordinary settings keys.  The names that every  *)
(* JavaScript object inherits (constructor, toString, __proto__, ...) are  *)
(* outside the key sets used here, so `key in target` is membership in the *)
(* object's own keys.                                                      *)
(***************************************************************************)
EXTENDS Integers, Sequences, FiniteSets, TLC

VARIABLES
    fs,             \* file name -> [exists, valid, doc]: the files of <workspace>/.vscode
    platform,       \* process.platform
    workspaceOpen,  \* whether vscode.workspace.workspaceFolders is defined
    runs,           \* number of completed runs of the command
    before,         \* fs as it was when the last run started
    notes,          \* notifications shown by the last run or call, in order
    status,         \* how the last run or call ended
    call,           \* SpecResolve: the last reader call and what it returned
    target,         \* SpecMerge: first argument of deepMerge
    source,         \* SpecMerge: second argument of deepMerge
    output          \* SpecMerge: [done, val], the value deepMerge returned

vars == <<fs, platform, workspaceOpen, runs, before, notes, status, call,
          target, source, output>>

(***************************************************************************)
(* Bounds.                                                                 *)
(***************************************************************************)
MaxNodes == 4      \* SpecMerge: nodes of each argument of deepMerge
MaxFsProps == 3    \* Spec, SpecResolve: properties in the files a run reads, together
MaxRuns == 2       \* Spec: runs of the command

(***************************************************************************)
(* JSON values.  kind is the JavaScript type as the code distinguishes it; *)
(* props are the own enumerable properties (an array's are its indexes).   *)
(* "infinity" is the number Infinity, which JSON.parse yields for a        *)
(* literal beyond the double range such as 1e999.                          *)
(***************************************************************************)
NoProps == [k \in {} |-> 0]

JNull == [kind |-> "null", num |-> 0, props |-> NoProps]
JNum(n) == [kind |-> "number", num |-> n, props |-> NoProps]
JInf == [kind |-> "infinity", num |-> 0, props |-> NoProps]
JArr(p) == [kind |-> "array", num |-> 0, props |-> p]
JObj(p) == [kind |-> "object", num |-> 0, props |-> p]

EmptyObject == JObj(NoProps)

Keys(v) == DOMAIN v.props

\* JavaScript truthiness of a parsed JSON value.
Truthy(v) ==
    CASE v.kind = "null" -> FALSE
      [] v.kind = "number" -> v.num # 0
      [] OTHER -> TRUE

\* typeof v === 'object' holds of null, arrays and plain objects.
TypeofObject(v) == v.kind \in {"null", "array", "object"}

ArrayIsArray(v) == v.kind = "array"

isObject(item) == Truthy(item) /\ TypeofObject(item) /\ ~ArrayIsArray(item)

\* A merge that starts from an empty object instead of a copy of the target.
ObjectAssignEmptyDropsTarget(v) == JObj(NoProps)

\* Object.assign({}, v): a new plain object holding v's own enumerable properties.
ObjectAssignEmpty(v) == JObj(v.props)

\* Object.assign(o, { [key]: val }) and o[key] = val.
SetProp(o, key, val) ==
    JObj([k \in Keys(o) \cup {key} |-> IF k = key THEN val ELSE o.props[k]])

RECURSIVE deepMerge(_, _)
RECURSIVE MergeKeys(_, _, _, _)

\* A shallow merge: the overlay's value replaces the base's at every key.
RECURSIVE MergeKeysShallow(_, _, _, _)
MergeKeysShallow(out, tgt, src, todo) ==
    IF todo = {} THEN out
    ELSE LET key == CHOOSE k \in todo : TRUE
         IN  MergeKeysShallow(SetProp(out, key, src.props[key]), tgt, src, todo \ {key})

\* The forEach of deepMerge over the keys still to visit.
MergeKeys(out, tgt, src, todo) ==
    IF todo = {} THEN out
    ELSE LET key == CHOOSE k \in todo : TRUE
             val == IF isObject(src.props[key])
                    THEN IF key \notin Keys(tgt)
                         THEN src.props[key]
                         ELSE deepMerge(tgt.props[key], src.props[key])
                    ELSE src.props[key]
         IN  MergeKeys(SetProp(out, key, val), tgt, src, todo \ {key})

deepMerge(tgt, src) ==
    IF isObject(tgt) /\ isObject(src)
    THEN MergeKeys(ObjectAssignEmpty(tgt), tgt, src, Keys(src))
    ELSE ObjectAssignEmpty(tgt)

(***************************************************************************)
(* Bounded sets of JSON values: at most n nodes, a node being a scalar, an *)
(* array or an object.                                                     *)
(***************************************************************************)
RECURSIVE NodeSum(_, _)
RECURSIVE Nodes(_)
NodeSum(v, ks) ==
    IF ks = {} THEN 0
    ELSE LET k == CHOOSE x \in ks : TRUE
         IN  Nodes(v.props[k]) + NodeSum(v, ks \ {k})
Nodes(v) == IF v.kind = "object" THEN 1 + NodeSum(v, Keys(v)) ELSE 1

RECURSIVE ValuesUpTo(_, _, _)
RECURSIVE PropsUpTo(_, _, _, _)
\* The property maps over a subset of ks whose values have n nodes in all, at most.
PropsUpTo(n, ks, all, leaves) ==
    IF ks = {} \/ n = 0 THEN {NoProps}
    ELSE LET k == CHOOSE x \in ks : TRUE
             rest == ks \ {k}
         IN  PropsUpTo(n, rest, all, leaves)
             \cup UNION { { (k :> v) @@ p : p \in PropsUpTo(n - Nodes(v), rest, all, leaves) }
                          : v \in ValuesUpTo(n, all, leaves) }
ValuesUpTo(n, all, leaves) ==
    IF n = 0 THEN {}
    ELSE leaves \cup { JObj(p) : p \in PropsUpTo(n - 1, all, all, leaves) }

MergeKeySet == {"a", "b"}
MergeLeaves == {JNull, JNum(1), JArr("0" :> JNum(1))}
MergeValues == ValuesUpTo(MaxNodes, MergeKeySet, MergeLeaves)

(***************************************************************************)
(* SpecMerge: deepMerge on every pair of bounded values.                   *)
(***************************************************************************)
Idle == [fn |-> "none", arg |-> "", threw |-> FALSE, ret |-> JNull]
NoFile == [exists |-> FALSE, valid |-> FALSE, doc |-> JNull]

InitMerge ==
    /\ target \in MergeValues
    /\ source \in MergeValues
    /\ output = [done |-> FALSE, val |-> JNull]
    /\ fs = [f \in {} |-> NoFile]
    /\ platform = "linux"
    /\ workspaceOpen = FALSE
    /\ runs = 0
    /\ before = fs
    /\ notes = <<>>
    /\ status = "idle"
    /\ call = Idle

Merge ==
    /\ ~output.done
    /\ output' = [done |-> TRUE, val |-> deepMerge(target, source)]
    /\ UNCHANGED <<fs, platform, workspaceOpen, runs, before, notes, status, call,
                   target, source>>

NextMerge == Merge

SpecMerge == InitMerge /\ [][NextMerge]_vars

\* What the specification calls a plain object, and a mapping.
IsPlainObject(v) == v.kind = "object"

\* C2 (as claimed): for mappings target and source and every key k of source, unless
\* both values at k are plain objects, the merged value at k is the overlay's value.
OverlayWinsUnlessBothObjects ==
    (output.done /\ IsPlainObject(target) /\ IsPlainObject(source)) =>
        \A k \in Keys(source) :
            ~(k \in Keys(target) /\ IsPlainObject(target.props[k])
                                 /\ IsPlainObject(source.props[k]))
            => (k \in Keys(output.val) /\ output.val.props[k] = source.props[k])

\* The key union and the recursive merge of C6, at every nesting depth.
RECURSIVE KeyUnionMerge(_, _, _)
KeyUnionMerge(b, o, out) ==
    /\ IsPlainObject(out)
    /\ Keys(out) = Keys(b) \cup Keys(o)
    /\ \A k \in Keys(b) \ Keys(o) : out.props[k] = b.props[k]
    /\ \A k \in Keys(b) \cap Keys(o) :
          (IsPlainObject(b.props[k]) /\ IsPlainObject(o.props[k]))
          => /\ out.props[k] = deepMerge(b.props[k], o.props[k])
             /\ KeyUnionMerge(b.props[k], o.props[k], out.props[k])

PLATFORMS == [all |-> "all", win32 |-> "windows", darwin |-> "macos", linux |-> "linux"]

\* Object.values(PLATFORMS), in insertion order.
PlatformValues == <<PLATFORMS.all, PLATFORMS.win32, PLATFORMS.darwin, PLATFORMS.linux>>

\* The values an `os` argument takes besides a platform name: the boolean false
\* that getOsName returns, and an argument left out.
OsFalse == "false"
OsUndefined == "undefined"
OsTags == {PlatformValues[i] : i \in 1..Len(PlatformValues)} \cup {OsFalse, OsUndefined}

FileNames == {"settings.json"} \cup {"settings." \o PlatformValues[i] \o ".json" : i \in 1..Len(PlatformValues)}

\* A file that exists without holding JSON text (or that cannot be read).
BadFile == [exists |-> TRUE, valid |-> FALSE, doc |-> JNull]
GoodFile(d) == [exists |-> TRUE, valid |-> TRUE, doc |-> d]

\* Notifications of the host editor.
Error(msg) == [level |-> "error", msg |-> msg]
Info(msg) == [level |-> "info", msg |-> msg]

\* What a helper hands back: whether it threw (or its promise rejected), the value
\* it returned and the notifications it showed.
Returned(v, ns) == [threw |-> FALSE, ret |-> v, notes |-> ns]
Thrown(ns) == [threw |-> TRUE, ret |-> JNull, notes |-> ns]

\* JSON.parse of a file's text; doc is the value a valid text denotes.
JSONparse(file) == file.doc

\* JSON.stringify: Infinity is written as null; everything else parsed from JSON
\* is written as it is.
RECURSIVE JSONstringify(_)
JSONstringify(v) ==
    CASE v.kind = "infinity" -> JNull
      [] v.kind \in {"array", "object"} ->
            [v EXCEPT !.props = [k \in Keys(v) |-> JSONstringify(v.props[k])]]
      [] OTHER -> v

\* The path is <workspace>/.vscode/<fileName>; reading workspaceFolders[0] throws a
\* TypeError when no workspace folder is open.
getSettingFilePath(os, open) ==
    LET fileName == IF os \notin {OsFalse, OsUndefined}
                    THEN "settings." \o os \o ".json"
                    ELSE "settings.json"
    IN  [threw |-> ~open, path |-> fileName]

fileExists(files, filePath) == filePath \in DOMAIN files /\ files[filePath].exists

\* A reader without the try/catch around JSON.parse.
getFileContentNoCatch(files, filePath) ==
    IF fileExists(files, filePath)
    THEN IF files[filePath].valid
         THEN Returned(JSONparse(files[filePath]), <<>>)
         ELSE Thrown(<<>>)
    ELSE Returned(EmptyObject, <<Error("Settings file not found")>>)

\* A reader that reads without testing that the file exists.
getFileContentNoExistsCheck(files, filePath) ==
    IF fileExists(files, filePath)
    THEN IF files[filePath].valid
         THEN Returned(JSONparse(files[filePath]), <<>>)
         ELSE Returned(EmptyObject, <<Error("Error reading settings file")>>)
    ELSE Thrown(<<>>)

getFileContent(files, filePath) ==
    IF fileExists(files, filePath)
    THEN IF files[filePath].valid
         THEN Returned(JSONparse(files[filePath]), <<>>)
         ELSE Returned(EmptyObject, <<Error("Error reading settings file")>>)
    ELSE Returned(EmptyObject, <<Error("Settings file not found")>>)

getSettingsFileContent(files, os, open) ==
    LET filePath == getSettingFilePath(os, open)
    IN  IF filePath.threw THEN Thrown(<<>>) ELSE getFileContent(files, filePath.path)

getOsName(os) ==
    IF os \in DOMAIN PLATFORMS
    THEN [name |-> PLATFORMS[os], notes |-> <<>>]
    ELSE [name |-> OsFalse, notes |-> <<Error("Unsupported operating system")>>]

getDefaultSettingsFileContent(files, open) ==
    LET all == getSettingsFileContent(files, PLATFORMS.all, open)
        settings == getSettingsFileContent(files, OsUndefined, open)
    IN  IF all.threw THEN all
        ELSE IF Truthy(all.ret) THEN all
        ELSE IF settings.threw THEN Thrown(all.notes \o settings.notes)
        ELSE IF Truthy(settings.ret) THEN Returned(settings.ret, all.notes \o settings.notes)
        ELSE Returned(EmptyObject, all.notes \o settings.notes)

\* isValid: true when one of the four platform files exists.
isValid(files, open) ==
    LET paths == [i \in 1..Len(PlatformValues) |-> getSettingFilePath(PlatformValues[i], open)]
    IN  IF \E i \in 1..Len(paths) : paths[i].threw
        THEN [threw |-> TRUE, ret |-> FALSE]
        ELSE [threw |-> FALSE,
              ret |-> fileExists(files, paths[1].path) \/ fileExists(files, paths[2].path)
                      \/ fileExists(files, paths[3].path) \/ fileExists(files, paths[4].path)]

\* createFileIfNotExists calls the callback form fs.mkdir without a callback: that
\* throws, the catch logs it to the console, and no file is created.
createFileIfNotExists(files, filePath, content) == files

\* How fs.writeFile ends: the text is written; the file cannot be opened and stays as
\* it was; or the write breaks off and leaves a file without valid JSON.
WriteOutcomes == {"written", "refused", "truncated"}

\* updateSettingsFile: the files afterwards, whether the promise rejected, and the
\* notifications shown.
updateSettingsFile(files, newSettings, open, outcome) ==
    LET filePath == getSettingFilePath(OsUndefined, open)
        created == IF ~fileExists(files, filePath.path)
                   THEN createFileIfNotExists(files, filePath.path, EmptyObject)
                   ELSE files
        defaultSettings == getDefaultSettingsFileContent(created, open)
        settings == deepMerge(defaultSettings.ret, newSettings)
    IN  IF filePath.threw \/ defaultSettings.threw
        THEN [files |-> files, rejected |-> TRUE, notes |-> <<>>]
        ELSE CASE outcome = "written" ->
                    [files |-> [created EXCEPT ![filePath.path] = GoodFile(JSONstringify(settings))],
                     rejected |-> FALSE, notes |-> defaultSettings.notes]
               [] outcome = "refused" ->
                    [files |-> created, rejected |-> TRUE, notes |-> defaultSettings.notes]
               [] outcome = "truncated" ->
                    [files |-> [created EXCEPT ![filePath.path] = BadFile],
                     rejected |-> TRUE, notes |-> defaultSettings.notes]

\* One whole run of the exported command.
RunCommand(files, os, open, outcome) ==
    LET valid == isValid(files, open)
        osName == getOsName(os)
        osSettings == getSettingsFileContent(files, osName.name, open)
        updated == updateSettingsFile(files, osSettings.ret, open, outcome)
        shown == osName.notes \o osSettings.notes \o updated.notes
    IN  IF valid.threw
        THEN [files |-> files, status |-> "rejected", notes |-> <<>>]
        ELSE IF ~valid.ret
        THEN [files |-> files, status |-> "invalid",
              notes |-> <<Error("No workspace folder opened.")>>]
        ELSE IF ~open
        THEN [files |-> files, status |-> "invalid",
              notes |-> <<Error("No workspace folder opened.")>>]
        ELSE IF osSettings.threw
        THEN [files |-> files, status |-> "rejected", notes |-> osName.notes]
        ELSE IF updated.rejected
        THEN [files |-> updated.files, status |-> "failed",
              notes |-> shown \o <<Error("Error updating settings.json")>>]
        ELSE [files |-> updated.files, status |-> "updated",
              notes |-> shown \o <<Info("Updated settings.json")>>]

(***************************************************************************)
(* Workspaces.  The files a run on the given platform reads (settings.json,*)
(* settings.all.json and the platform's own file) hold any text, with at   *)
(* most MaxFsProps properties in all of them together; of the other        *)
(* platforms' files a run only tests the existence.                        *)
(***************************************************************************)
FileKeySet == {"a"}
FileLeaves == {JNull, JNum(1), JInf, JArr("0" :> JNum(1))}

FileStates == {NoFile, BadFile}
              \cup {GoodFile(d) : d \in ValuesUpTo(MaxFsProps + 1, FileKeySet, FileLeaves)}

\* The properties of a file's document, nested ones included.
FileProps(file) == IF file.exists /\ file.valid THEN Nodes(file.doc) - 1 ELSE 0

RECURSIVE FilesUpTo(_, _)
FilesUpTo(n, names) ==
    IF names = {} THEN {[f \in {} |-> NoFile]}
    ELSE LET name == CHOOSE x \in names : TRUE
         IN  UNION { { (name :> file) @@ rest : rest \in FilesUpTo(n - FileProps(file), names \ {name}) }
                     : file \in {x \in FileStates : FileProps(x) <= n} }

ReadNames(os) ==
    {"settings.json", "settings.all.json"}
    \cup (IF os \in DOMAIN PLATFORMS THEN {"settings." \o PLATFORMS[os] \o ".json"} ELSE {})

Workspaces(os) ==
    { read @@ others : read \in FilesUpTo(MaxFsProps, ReadNames(os)),
                       others \in [FileNames \ ReadNames(os) -> {NoFile, GoodFile(EmptyObject)}] }

\* Without a workspace folder there is no .vscode directory to hold files.
NoWorkspace == [f \in FileNames |-> NoFile]

\* Values of process.platform; freebsd stands for the unsupported ones.
Platforms == {"win32", "darwin", "linux", "freebsd"}

(***************************************************************************)
(* Spec: runs of vsCodeUpdateSettingsFile.                                 *)
(***************************************************************************)
Init ==
    /\ platform \in Platforms
    /\ workspaceOpen \in BOOLEAN
    /\ fs \in (IF workspaceOpen THEN Workspaces(platform) ELSE {NoWorkspace})
    /\ runs = 0
    /\ before = fs
    /\ notes = <<>>
    /\ status = "idle"
    /\ call = Idle
    /\ target = JNull
    /\ source = JNull
    /\ output = [done |-> FALSE, val |-> JNull]

vsCodeUpdateSettingsFile(outcome) ==
    /\ runs < MaxRuns
    /\ LET run == RunCommand(fs, platform, workspaceOpen, outcome)
       IN  /\ fs' = run.files
           /\ status' = run.status
           /\ notes' = run.notes
    /\ before' = fs
    /\ runs' = runs + 1
    /\ UNCHANGED <<platform, workspaceOpen, call, target, source, output>>

Next == \E outcome \in WriteOutcomes : vsCodeUpdateSettingsFile(outcome)

Spec == Init /\ [][Next]_vars

\* The platform's own settings file, for a supported platform.
OsFile(os) == "settings." \o PLATFORMS[os] \o ".json"

Supported == platform \in DOMAIN PLATFORMS

Parses(file) == file.exists /\ file.valid

\* Every file of the workspace is missing or holds a mapping.
HoldsMappings(files) ==
    \A f \in FileNames : files[f].exists => (files[f].valid /\ IsPlainObject(files[f].doc))

\* C1 (as claimed), in workspaces whose files hold mappings: after a successful run
\* on a supported platform, settings.json holds the deep merge of what it held before
\* the run with the platform's file, and every key it held before.
UpdateMergesIntoExistingSettings ==
    (runs > 0 /\ status = "updated" /\ Supported /\ HoldsMappings(before)
        /\ before["settings.json"].exists /\ before[OsFile(platform)].exists)
    => /\ fs["settings.json"] =
            GoodFile(JSONstringify(deepMerge(before["settings.json"].doc,
                                             before[OsFile(platform)].doc)))
       /\ Keys(before["settings.json"].doc) \subseteq Keys(fs["settings.json"].doc)

\* C4 (as claimed): no run of the command ends in a rejected promise.
NoFailureEscapes == runs > 0 => status # "rejected"

\* The failures of a run that C5 lists, read off the files the run started from.
RunFailed ==
    \/ ~workspaceOpen
    \/ ~Supported
    \/ Supported /\ ~Parses(before[OsFile(platform)])
    \/ \E f \in FileNames : before[f] = BadFile
    \/ status \in {"failed", "rejected", "invalid"}

\* C5 (as claimed), for the runs in an open workspace: a run in which a failure
\* occurs shows exactly one notification, an error; no run shows both an error and a
\* success notification.
FailureShowsOneError ==
    (runs > 0 /\ workspaceOpen) =>
        /\ RunFailed => (Len(notes) = 1 /\ notes[1].level = "error")
        /\ ~(\E i, j \in 1..Len(notes) : notes[i].level = "error" /\ notes[j].level = "info")

\* C9: a run that starts with a file that exists without valid JSON does not reject;
\* reading that file gives the empty mapping; and a successful run writes to
\* settings.json what it writes when that file holds {}: it contributes no keys.  When it
\* is the platform's own file, the run reports the read error.
InvalidJsonReadsAsEmpty ==
    runs > 0 =>
        \A f \in FileNames :
            before[f] = BadFile =>
                /\ status # "rejected"
                /\ ~getFileContent(before, f).threw
                /\ getFileContent(before, f).ret = EmptyObject
                /\ status = "updated" =>
                     fs["settings.json"] =
                        RunCommand([before EXCEPT ![f] = GoodFile(EmptyObject)],
                                   platform, workspaceOpen, "written").files["settings.json"]
                /\ (Supported /\ f = OsFile(platform) /\ status = "updated") =>
                     /\ \E i \in 1..Len(notes) : notes[i] = Error("Error reading settings file")
                     /\ Parses(before["settings.all.json"])
                          /\ IsPlainObject(before["settings.all.json"].doc)
                        => fs["settings.json"] =
                              GoodFile(JSONstringify(before["settings.all.json"].doc))

\* C9 witness: a successful run whose platform file held invalid JSON wrote the
\* non-empty settings.all.json mapping unchanged.
InvalidJsonReadsAsEmptyWitness ==
    /\ runs > 0 /\ status = "updated" /\ Supported
    /\ before[OsFile(platform)] = BadFile
    /\ Parses(before["settings.all.json"])
    /\ IsPlainObject(before["settings.all.json"].doc)
    /\ Keys(before["settings.all.json"].doc) # {}
    /\ fs["settings.json"] = GoodFile(before["settings.all.json"].doc)

\* C10 (as claimed), for runs that start with mappings in settings.json and in the
\* platform files: a successful run that follows a successful run leaves
\* settings.json as the first left it, and no run changes any other file.
RunIsIdempotent ==
    [][ /\ (status = "updated" /\ status' = "updated"
              /\ \A f \in FileNames \ {"settings.all.json"} :
                    before[f].exists => (before[f].valid /\ IsPlainObject(before[f].doc)))
            => fs'["settings.json"] = fs["settings.json"]
        /\ \A f \in FileNames \ {"settings.json"} : fs'[f] = fs[f] ]_vars

(***************************************************************************)
(* SpecResolve: the settings readers called on a workspace's files.        *)
(***************************************************************************)
Called(fn, arg, r) == [fn |-> fn, arg |-> arg, threw |-> r.threw, ret |-> r.ret]

CallGetSettingsFileContent(os) ==
    /\ LET r == getSettingsFileContent(fs, os, workspaceOpen)
       IN  /\ call' = Called("getSettingsFileContent", os, r)
           /\ notes' = r.notes
    /\ UNCHANGED <<fs, platform, workspaceOpen, runs, before, status, target, source, output>>

CallGetDefaultSettingsFileContent ==
    /\ LET r == getDefaultSettingsFileContent(fs, workspaceOpen)
       IN  /\ call' = Called("getDefaultSettingsFileContent", "", r)
           /\ notes' = r.notes
    /\ UNCHANGED <<fs, platform, workspaceOpen, runs, before, status, target, source, output>>

NextResolve ==
    \/ \E os \in OsTags : CallGetSettingsFileContent(os)
    \/ CallGetDefaultSettingsFileContent

SpecResolve == Init /\ [][NextResolve]_vars

\* C3 (as claimed), in workspaces whose valid files hold mappings: when
\* settings.all.json is missing or unreadable and settings.json holds valid JSON, the
\* default settings are the content of settings.json; the empty mapping is the result
\* only when neither file can be read.
DefaultFallsBackToSettingsJson ==
    (call.fn = "getDefaultSettingsFileContent" /\ workspaceOpen
        /\ \A f \in FileNames : Parses(fs[f]) => IsPlainObject(fs[f].doc))
    => /\ (~Parses(fs["settings.all.json"]) /\ Parses(fs["settings.json"]))
            => (~call.threw /\ call.ret = fs["settings.json"].doc)
       /\ (~Parses(fs["settings.all.json"]) /\ ~Parses(fs["settings.json"]))
            => (~call.threw /\ call.ret = EmptyObject)

\* C8: with a workspace open and no settings file present, getSettingsFileContent
\* (for every tag, or none) and getDefaultSettingsFileContent return the empty
\* mapping and do not throw.
NoFilesResolveToEmpty ==
    (call.fn # "none" /\ workspaceOpen /\ \A f \in FileNames : ~fs[f].exists)
    => (~call.threw /\ call.ret = EmptyObject)

\* C8 witness: the default settings have been resolved in an open workspace that
\* holds no settings file.
NoFilesResolveToEmptyWitness ==
    /\ call.fn = "getDefaultSettingsFileContent" /\ workspaceOpen
    /\ \A f \in FileNames : ~fs[f].exists
    /\ call.ret = EmptyObject
    /\ Len(notes) > 0

====
